---- MODULE Spec2Model ----
(***************************************************************************)
(* Model of MessageCenterClient and of the listener WebviewBrigeContribution*)
(* registers with it                                                        *)
(* (src/lib/vscode/src/vs/workbench/contrib/webviewBrige/browser/           *)
(*  webviewBrige.contribution.ts).                                          *)
(*                                                                          *)
(* The client lives on one JavaScript event loop: every handler (a timer    *)
(* callback, the load listener, onopen, onclose, onerror, onmessage) and    *)
(* every call of send / registerCallback runs to completion, so each is one *)
(* action.  The WebSocket objects follow the WHATWG rules the code relies   *)
(* on: readyState becomes OPEN in the task that fires open, becomes CLOSED  *)
(* in the task that fires (error and) close, becomes CLOSING when a closing *)
(* handshake starts, and message events fire only while OPEN.               *)
(***************************************************************************)
EXTENDS Integers, Sequences, FiniteSets, TLC

(***************************************************************************)
(* Bounds of the model.                                                     *)
(***************************************************************************)
MaxSends == 2
MaxListeners == 2
MaxSockets == 2

(***************************************************************************)
(* Program constants.                                                       *)
(***************************************************************************)
InitialDelay == 0
ReconnectDelay == 1000
Protocol == "EXTENSION_EDITOR"
DefaultPort == 9974

(***************************************************************************)
(* The endpoint: url is computed once, when the module is evaluated, from   *)
(* navigator.userAgent.  Strings are sequences of one-character strings so  *)
(* that the regular expression is matched character by character.           *)
(***************************************************************************)
MaxDigits == 2
DigitChars == << "0", "1", "2", "3", "4", "5", "6", "7", "8", "9" >>
IsDigit(c) == \E d \in 1..Len(DigitChars) : DigitChars[d] = c
DigitValue(c) == (CHOOSE d \in 1..Len(DigitChars) : DigitChars[d] = c) - 1
PortPrefix == << "p", "o", "r", "t", "/" >>

\* Whether "port/" stands at position i of ua.
MatchesAt(ua, i) ==
    i + Len(PortPrefix) - 1 <= Len(ua)
      /\ SubSeq(ua, i, i + Len(PortPrefix) - 1) = PortPrefix

RECURSIVE DigitRun(_, _)
\* (\d*) from position j: the longest run of digits, possibly empty.
DigitRun(ua, j) ==
    IF j <= Len(ua) /\ IsDigit(ua[j])
    THEN << ua[j] >> \o DigitRun(ua, j + 1)
    ELSE <<>>

\* userAgent.match(/port\/(\d*)/): no match (null), or the group of the
\* leftmost match.
match(ua) ==
    IF \E i \in 1..Len(ua) : MatchesAt(ua, i)
    THEN LET i == CHOOSE k \in 1..Len(ua) :
                     MatchesAt(ua, k) /\ \A l \in 1..(k - 1) : ~MatchesAt(ua, l)
         IN  [matched |-> TRUE, group |-> DigitRun(ua, i + Len(PortPrefix))]
    ELSE [matched |-> FALSE, group |-> <<>>]

RECURSIVE DecimalValue(_)
DecimalValue(ds) ==
    IF ds = <<>> THEN 0
    ELSE 10 * DecimalValue(SubSeq(ds, 1, Len(ds) - 1)) + DigitValue(ds[Len(ds)])

\* parseInt(text, 10) on a run of digits: NaN for the empty string.
parseInt(ds) ==
    IF ds = <<>> THEN [nan |-> TRUE, num |-> 0]
    ELSE [nan |-> FALSE, num |-> DecimalValue(ds)]

\* A number inside a template literal.
NumberToString(n) == IF n.nan THEN "NaN" ELSE ToString(n.num)

\* const url = `ws://127.0.0.1:${port ? parseInt(port[1], 10) : 9974}`
Url(ua) ==
    LET port == match(ua)
    IN  "ws://127.0.0.1:" \o
          NumberToString(IF port.matched THEN parseInt(port.group)
                         ELSE [nan |-> FALSE, num |-> DefaultPort])

RECURSIVE SeqsUpTo(_, _)
\* The sequences over S of length at most n.
SeqsUpTo(S, n) ==
    IF n = 0 THEN { <<>> }
    ELSE LET shorter == SeqsUpTo(S, n - 1)
         IN  shorter \cup { Append(q, c) : q \in shorter, c \in S }

\* The user-agent strings tried: something, then "port/" or a near miss,
\* then up to MaxDigits digits, then something.
UserAgents ==
    { pre \o mid \o ds \o post :
        pre \in { <<>>, << "x", " " >> },
        mid \in { PortPrefix, << "p", "o", "r", "t" >>,
                  << "P", "o", "r", "t", "/" >>, <<>> },
        ds \in SeqsUpTo({ "0", "8", "9" }, MaxDigits),
        post \in { <<>>, << " " >>, << " " >> \o PortPrefix \o << "7" >> } }

\* The user agent of the host the client runs in.
HostUserAgent == PortPrefix \o << "9", "0" >>

(***************************************************************************)
(* JSON values.  A value is a record tagged by its type; an object keeps    *)
(* its members as a sequence of <<key, value>> pairs, in insertion order.   *)
(***************************************************************************)
JNull == [type |-> "null"]
JUndefined == [type |-> "undefined"]
JNum(n) == [type |-> "number", num |-> n]
JStr(s) == [type |-> "string", str |-> s]
JObj(members) == [type |-> "object", members |-> members]

RECURSIVE JSONstringify(_)
RECURSIVE stringifyMembers(_)
\* JSON.stringify on the values above: the text that goes on the wire.
JSONstringify(v) ==
    CASE v.type = "null" -> "null"
      [] v.type = "number" -> ToString(v.num)
      [] v.type = "string" -> "\"" \o v.str \o "\""
      [] v.type = "object" -> "{" \o stringifyMembers(v.members) \o "}"

stringifyMembers(ms) ==
    IF ms = <<>> THEN ""
    ELSE LET one == "\"" \o Head(ms)[1] \o "\":" \o JSONstringify(Head(ms)[2])
         IN  IF Len(ms) = 1 THEN one ELSE one \o "," \o stringifyMembers(Tail(ms))

\* obj[key] of JavaScript: undefined when the member is absent or v is no object.
Member(v, key) ==
    IF v.type = "object" /\ \E i \in 1..Len(v.members) : v.members[i][1] = key
    THEN LET i == CHOOSE j \in 1..Len(v.members) : v.members[j][1] = key
         IN  v.members[i][2]
    ELSE JUndefined

\* The values callers pass to send.
Messages == { JObj(<< <<"a", JNum(1)>> >>), JObj(<< <<"b", JNum(2)>> >>) }

\* The JSON values the peer sends, and frames that are no JSON text.
InboundValues ==
    { JObj(<< <<"command", JStr("updateTheme")>>, <<"data", JStr("theme-2")>> >>),
      JObj(<< <<"command", JStr("openFile")>> >>),
      JNull }
MalformedFrames == { "not json", "{\"command\":" }
Frames == { JSONstringify(v) : v \in InboundValues } \cup MalformedFrames

\* The JSON values tried on the router: every command with the data it
\* recognises and with other data, other commands, no command, no object.
RouterValues ==
    InboundValues \cup
    { JObj(<< <<"command", JStr("updateTheme")>>, <<"data", JStr("theme-1")>> >>),
      JObj(<< <<"command", JStr("updateTheme")>> >>),
      JObj(<< <<"command", JStr("openFile")>>,
              <<"data", JObj(<< <<"filePath", JStr("a.ts")>> >>)>> >>),
      JObj(<< <<"command", JStr("updateLocale")>>, <<"data", JStr("zh-CN")>> >>),
      JObj(<< <<"command", JStr("updateLocale")>>, <<"data", JStr("fr")>> >>),
      JObj(<< <<"command", JStr("updateTheme")>>, <<"data", JNum(2)>> >>),
      JObj(<< <<"command", JStr("openFile")>>, <<"data", JNull>> >>),
      JObj(<< <<"command", JStr("updateLocale")>> >>),
      JObj(<< <<"command", JStr("updateLocale")>>, <<"data", JNull>> >>),
      JObj(<< <<"command", JStr("reload")>>, <<"data", JStr("theme-2")>> >>),
      JObj(<< <<"command", JNum(1)>>, <<"data", JStr("zh-CN")>> >>),
      JObj(<< <<"a", JNum(1)>> >>),
      JNum(1),
      JStr("openFile") }
RouterFrames == { JSONstringify(v) : v \in RouterValues } \cup MalformedFrames

SyntaxError == [type |-> "SyntaxError"]
\* JSON.parse: the value whose text this is, or a SyntaxError.
JSONparse(text) ==
    IF \E v \in RouterValues : JSONstringify(v) = text
    THEN CHOOSE v \in RouterValues : JSONstringify(v) = text
    ELSE SyntaxError

(***************************************************************************)
(* Listeners.  "router" is the callback WebviewBrigeContribution.init       *)
(* registers (it returns normally on some messages and throws on others);   *)
(* "thrower" is a callback that throws on every call.  NotAFunction stands  *)
(* for a registerCallback argument that is no function.                     *)
(***************************************************************************)
Listeners == { "router", "thrower" }
NotAFunction == "notAFunction"

\* Whether the router callback throws synchronously on msg: destructuring
\* ({ command, data }) of null, or data.filePath with data null or undefined.
\* openFile, changeTheme and changeLanguage are async: they never throw here.
routerThrows(msg) ==
    \/ msg.type \in { "null", "undefined" }
    \/ /\ LET c == Member(msg, "command") IN c.type = "string" /\ c.str = "openFile"
       /\ Member(msg, "data").type \in { "null", "undefined" }

\* Whether callback cb throws when called with msg.
Throws(cb, msg) ==
    IF cb = "router" THEN routerThrows(msg) ELSE TRUE

(***************************************************************************)
(* The router callback and the services it calls.  A world says what the    *)
(* services answer: whether the workspace has a folder, whether openEditor  *)
(* rejects, which colour themes exist, whether updateValue rejects.  What   *)
(* one call of the router did is a record: whether it threw synchronously,  *)
(* the service calls made (with what each returned), the console.error      *)
(* lines, and whether an async method's promise rejected with nobody        *)
(* handling it.  The async methods are followed to their end.               *)
(***************************************************************************)
LightTheme == "Visual Studio Light"
DarkTheme == "Default Dark+"

Worlds ==
    [hasFolder : BOOLEAN, openEditorRejects : BOOLEAN,
     themes : SUBSET { LightTheme, DarkTheme }, updateValueRejects : BOOLEAN]

\* The world in which every service succeeds.
NominalWorld ==
    [hasFolder |-> TRUE, openEditorRejects |-> FALSE,
     themes |-> { LightTheme, DarkTheme }, updateValueRejects |-> FALSE]

Did(threw, called, logged, rejected) ==
    [threw |-> threw, called |-> called, logged |-> logged, rejected |-> rejected]
Called(fn, arg, result) == [fn |-> fn, arg |-> arg, result |-> result]
NothingDone == Did(FALSE, <<>>, <<>>, FALSE)

\* openFile(filePath): workspaceFolders[0].uri is read before the try block.
openFile(filePath, world) ==
    LET folders == Called("getWorkspace", "", IF world.hasFolder THEN { "folder" } ELSE {})
    IN  IF ~world.hasFolder
        THEN Did(FALSE, << folders >>, <<>>, TRUE)
        ELSE IF world.openEditorRejects
        THEN Did(FALSE, << folders, Called("openEditor", filePath, { "rejects" }) >>,
                 << "Failed to open " \o filePath \o " :" >>, FALSE)
        ELSE Did(FALSE, << folders, Called("openEditor", filePath, { "ok" }) >>,
                 <<>>, FALSE)

\* changeTheme as it would be if it applied the first theme when none matches.
changeThemeFallsBack(settingsId, world) ==
    Did(FALSE, << Called("getColorThemes", "", world.themes),
                  Called("setColorTheme", settingsId, { "ok" }) >>, <<>>, FALSE)

\* changeTheme(settingsId)
changeTheme(settingsId, world) ==
    LET themes == Called("getColorThemes", "", world.themes)
    IN  IF settingsId \in world.themes
        THEN Did(FALSE, << themes, Called("setColorTheme", settingsId, { "ok" }) >>,
                 <<>>, FALSE)
        ELSE Did(FALSE, << themes >>, << "Failed to find theme " \o settingsId >>, FALSE)

\* changeLanguage(locale)
changeLanguage(locale, world) ==
    IF world.updateValueRejects
    THEN Did(FALSE, << Called("updateValue", locale, { "rejects" }) >>,
             << "Failed to set locale to " \o locale \o ":" >>, FALSE)
    ELSE Did(FALSE, << Called("updateValue", locale, { "ok" }) >>, <<>>, FALSE)

\* data === text
IsString(data, text) == data.type = "string" /\ data.str = text

\* The theme id as it would be with the two branches swapped.
themeIdSwapped(data) ==
    IF IsString(data, "theme-2") THEN DarkTheme ELSE LightTheme

\* data === 'theme-2' ? 'Visual Studio Light' : 'Default Dark+'
themeId(data) ==
    IF IsString(data, "theme-2") THEN LightTheme ELSE DarkTheme

\* data === 'zh-CN' ? 'zh-CN' : 'en'
locale(data) ==
    IF IsString(data, "zh-CN") THEN "zh-CN" ELSE "en"

\* The callback init registers, called with msg.
router(msg, world) ==
    IF routerThrows(msg) THEN Did(TRUE, <<>>, <<>>, FALSE)
    ELSE LET command == Member(msg, "command")
             data == Member(msg, "data")
         IN  CASE IsString(command, "openFile") ->
                    openFile(Member(data, "filePath").str, world)
               [] IsString(command, "updateTheme") -> changeTheme(themeId(data), world)
               [] IsString(command, "updateLocale") -> changeLanguage(locale(data), world)
               [] OTHER -> NothingDone

\* prompt('GET_MESSAGE_TOKEN'): a token (of characters a subprotocol allows) or null.
Tokens == { "tok" }
NoToken == "null"

(***************************************************************************)
(* State.                                                                   *)
(*   ws           this._ws: 0 for null, else the socket it refers to        *)
(*   sockets      the WebSocket objects created so far (a closed one that   *)
(*                nothing refers to gives its slot back)                    *)
(*   msgQueue     this._msgQueue                                            *)
(*   callback     this._callback                                            *)
(*   timers       the delays of the pending setTimeout(connect) timers      *)
(*   loadListener whether the 'load' listener is registered and not yet run *)
(*   reachable    whether the endpoint accepts connections (environment)    *)
(*   wire         the frames handed to WebSocket.send, in order (history)   *)
(*   calls        the send calls made so far, in order (history)            *)
(*   event        the handler or call that ran last, with what it did       *)
(*   userAgent    navigator.userAgent, as a sequence of characters          *)
(*   url          the module constant url ("" until the module is evaluated)*)
(***************************************************************************)
VARIABLES ws, sockets, msgQueue, callback, timers, loadListener, reachable,
          wire, calls, event, userAgent, url

vars == << ws, sockets, msgQueue, callback, timers, loadListener, reachable,
           wire, calls, event, userAgent, url >>

SocketIds == 1..MaxSockets
NoSocket == [readyState |-> "FREE", protocol |-> ""]

\* What event records: the operation, the socket it was about (0: none), the
\* token or callback it got, the frame, the listener calls made, the
\* console.error lines, and whether an exception left the handler.
Ev(op, sock, arg, frame, invoked, logged, escaped) ==
    [op |-> op, sock |-> sock, arg |-> arg, frame |-> frame, invoked |-> invoked,
     logged |-> logged, escaped |-> escaped]

\* The record of a close event on sock, whose readyState was `was`; arg is
\* "error" when an error event came first in the same task.
EvClose(sock, arg, logged, was) ==
    [op |-> "close", sock |-> sock, arg |-> arg, frame |-> "", invoked |-> <<>>,
     logged |-> logged, escaped |-> FALSE, was |-> was]

\* The record of an onmessage run r, with what each callback called did in
\* the world it ran in (only the router does anything outside the client).
EvMessage(sock, frame, r, world) ==
    [op |-> "message", sock |-> sock, arg |-> "", frame |-> frame,
     invoked |-> r.invoked, logged |-> r.logged, escaped |-> r.exc,
     did |-> [i \in 1..Len(r.invoked) |->
                IF r.invoked[i][1] = "router"
                THEN router(r.invoked[i][2], world)
                ELSE Did(Throws(r.invoked[i][1], r.invoked[i][2]), <<>>, <<>>, FALSE)]]

\* The constructor: the first connect waits for a 0 ms timer when the document
\* is already complete, and for the load event otherwise.
Init ==
    /\ ws = 0
    /\ sockets = [s \in SocketIds |-> NoSocket]
    /\ msgQueue = <<>>
    /\ callback = <<>>
    /\ \E complete \in BOOLEAN :
          /\ timers = IF complete THEN << InitialDelay >> ELSE <<>>
          /\ loadListener = ~complete
    /\ reachable \in BOOLEAN
    /\ wire = <<>>
    /\ calls = <<>>
    /\ event = Ev("new", 0, "", "", <<>>, <<>>, FALSE)
    /\ userAgent = HostUserAgent
    /\ url = Url(userAgent)

\* The open test as it would be without the readyState comparison.
isOpenHandleOnly(h, socks) == h # 0

\* this._ws && this._ws.readyState === WebSocket.OPEN, for handle h.
isOpen(h, socks) == h # 0 /\ socks[h].readyState = "OPEN"

\* The client is OPEN: its handle refers to a socket whose connection is open.
ConnectionOpen == ws # 0 /\ sockets[ws].readyState = "OPEN"

\* send as it would be if it queued every message before looking at the socket.
sendQueuesFirst(h, socks, st, m) ==
    IF isOpen(h, socks)
    THEN [msgQueue |-> Append(st.msgQueue, m),
          wire |-> Append(st.wire, [sock |-> h, id |-> m.id,
                                    frame |-> JSONstringify(m.msg)])]
    ELSE [st EXCEPT !.msgQueue = Append(@, m)]

\* send(msg) on the state st = [msgQueue, wire] with handle h: transmit the
\* JSON text when open, else push on the queue.  m carries the value and the
\* number of the send call it came from.
send(h, socks, st, m) ==
    IF isOpen(h, socks)
    THEN [st EXCEPT !.wire = Append(@, [sock |-> h, id |-> m.id,
                                        frame |-> JSONstringify(m.msg)])]
    ELSE [st EXCEPT !.msgQueue = Append(@, m)]

RECURSIVE forEachSend(_, _, _, _)
\* msgQueue.forEach((msg) => this.send(msg))
forEachSend(h, socks, st, q) ==
    IF q = <<>> THEN st
    ELSE forEachSend(h, socks, send(h, socks, st, Head(q)), Tail(q))

RECURSIVE Reverse(_)
Reverse(q) == IF q = <<>> THEN <<>> ELSE Append(Reverse(Tail(q)), Head(q))

\* onopen as it would be if it replayed the copy from its tail.
onopenReversed(h, socks, q, w) ==
    forEachSend(h, socks, [msgQueue |-> <<>>, wire |-> w], Reverse(q))

\* onopen as it would be if it did not empty the queue before replaying.
onopenKeepsQueue(h, socks, q, w) ==
    forEachSend(h, socks, [msgQueue |-> q, wire |-> w], q)

\* onopen: copy the queue, empty it, send each copied message.
onopen(h, socks, q, w) ==
    forEachSend(h, socks, [msgQueue |-> <<>>, wire |-> w], q)

\* onclose as it would be without the setTimeout.
oncloseNoReconnect(h, tm) ==
    [ws |-> 0, timers |-> tm]

\* onclose as it would be if it scheduled the reconnect twice.
oncloseTwoTimers(h, tm) ==
    [ws |-> 0, timers |-> Append(Append(tm, ReconnectDelay), ReconnectDelay)]

\* onclose: drop the handle, schedule connect after 1000 ms.
onclose(h, tm) ==
    [ws |-> 0, timers |-> Append(tm, ReconnectDelay)]

\* connect as it would be without the return after the failed prompt.
connectWithoutToken(e, s) ==
    [ws |-> s,
     sockets |-> [sockets EXCEPT ![s] =
                     [readyState |-> "CONNECTING",
                      protocol |-> Protocol \o "#" \o e \o "#"]],
     logged |-> IF e = NoToken THEN << "Failed to get message token." >> ELSE <<>>]

\* connect() up to the handlers' installation, with prompt result e and s the
\* WebSocket object `new` would create.
connect(e, s) ==
    IF e = NoToken
    THEN [ws |-> ws, sockets |-> sockets,
          logged |-> << "Failed to get message token." >>]
    ELSE [ws |-> s,
          sockets |-> [sockets EXCEPT ![s] =
                          [readyState |-> "CONNECTING",
                           protocol |-> Protocol \o "#" \o e \o "#"]],
          logged |-> <<>>]

\* One callback's call as it would be without the inner try/catch.
tryCallbackNoCatch(cb, msg, acc) ==
    IF Throws(cb, msg)
    THEN [acc EXCEPT !.invoked = Append(@, << cb, msg >>), !.exc = TRUE]
    ELSE [acc EXCEPT !.invoked = Append(@, << cb, msg >>)]

\* The inner try/catch around one callback: call it, log what it throws.
tryCallback(cb, msg, acc) ==
    IF Throws(cb, msg)
    THEN [acc EXCEPT !.invoked = Append(@, << cb, msg >>),
                     !.logged = Append(@, "Error in message callback:")]
    ELSE [acc EXCEPT !.invoked = Append(@, << cb, msg >>)]

RECURSIVE forEachCallback(_, _, _)
\* this._callback.forEach(...): stops where an exception leaves the body.
forEachCallback(cbs, msg, acc) ==
    IF cbs = <<>> THEN acc
    ELSE LET r == tryCallback(Head(cbs), msg, acc)
         IN  IF r.exc THEN r ELSE forEachCallback(Tail(cbs), msg, r)

\* onmessage as it would be if a parse failure were logged and the callbacks
\* were called all the same, with undefined.
onmessageDispatchesUnparsed(cbs, frame) ==
    LET msg == JSONparse(frame)
        acc == [invoked |-> <<>>, logged |-> <<>>, exc |-> FALSE]
    IN  IF msg.type = "SyntaxError"
        THEN forEachCallback(cbs, JUndefined,
                             [acc EXCEPT !.logged = << "Failed to parse message:" >>])
        ELSE forEachCallback(cbs, msg, acc)

\* onmessage: parse, dispatch; the outer catch logs whatever got that far.
onmessage(cbs, frame) ==
    LET msg == JSONparse(frame)
        acc == [invoked |-> <<>>, logged |-> <<>>, exc |-> FALSE]
        r == IF msg.type = "SyntaxError"
             THEN [acc EXCEPT !.exc = TRUE]
             ELSE forEachCallback(cbs, msg, acc)
    IN  IF r.exc
        THEN [r EXCEPT !.logged = Append(@, "Failed to parse message:"),
                       !.exc = FALSE]
        ELSE r

\* registerCallback as it would be if it kept only the latest callback.
registerCallbackReplaces(cbs, cb) ==
    IF cb \in Listeners THEN << cb >> ELSE cbs

\* registerCallback: functions are appended, anything else is ignored.
registerCallback(cbs, cb) ==
    IF cb \in Listeners THEN Append(cbs, cb) ELSE cbs

(***************************************************************************)
(* Actions: one per handler or call.                                        *)
(***************************************************************************)
RemoveAt(seq, i) == SubSeq(seq, 1, i - 1) \o SubSeq(seq, i + 1, Len(seq))

\* The slots `new WebSocket` may take: never used, or closed and unreferenced.
FreeSlots == { s \in SocketIds : sockets[s].readyState \in { "FREE", "CLOSED" } /\ s # ws }
NewSocket == CHOOSE s \in FreeSlots : \A t \in FreeSlots : s <= t

\* The timer callback as it would be if setInterval had scheduled it: it
\* runs connect() and stays pending.
TimerFiresRepeats(i, e) ==
    /\ i \in 1..Len(timers)
    /\ e # NoToken => FreeSlots # {}
    /\ LET c == connect(e, NewSocket)
       IN  /\ ws' = c.ws
           /\ sockets' = c.sockets
           /\ event' = Ev("connect", IF e = NoToken THEN 0 ELSE c.ws, e, "",
                          <<>>, c.logged, FALSE)
    /\ UNCHANGED << userAgent, url, msgQueue, callback, timers, loadListener, reachable,
                    wire, calls >>

\* A setTimeout callback runs connect(); the prompt returns e.
TimerFires(i, e) ==
    /\ i \in 1..Len(timers)
    /\ e # NoToken => FreeSlots # {}
    /\ LET c == connect(e, NewSocket)
       IN  /\ ws' = c.ws
           /\ sockets' = c.sockets
           /\ event' = Ev("connect", IF e = NoToken THEN 0 ELSE c.ws, e, "",
                          <<>>, c.logged, FALSE)
    /\ timers' = RemoveAt(timers, i)
    /\ UNCHANGED << userAgent, url, msgQueue, callback, loadListener, reachable, wire, calls >>

TimerConnect == \E i \in 1..Len(timers), e \in Tokens : TimerFires(i, e)
TimerNoToken == \E i \in 1..Len(timers) : TimerFires(i, NoToken)

\* The load listener runs connect(); the prompt returns e.
LoadFires(e) ==
    /\ loadListener
    /\ e # NoToken => FreeSlots # {}
    /\ LET c == connect(e, NewSocket)
       IN  /\ ws' = c.ws
           /\ sockets' = c.sockets
           /\ event' = Ev("connect", IF e = NoToken THEN 0 ELSE c.ws, e, "",
                          <<>>, c.logged, FALSE)
    /\ loadListener' = FALSE
    /\ UNCHANGED << userAgent, url, msgQueue, callback, timers, reachable, wire, calls >>

LoadConnect == loadListener /\ \E e \in Tokens : LoadFires(e)
LoadNoToken == loadListener /\ LoadFires(NoToken)

\* The connection of socket s is established: readyState OPEN, onopen runs.
SocketOpens(s) ==
    /\ sockets[s].readyState = "CONNECTING"
    /\ reachable
    /\ LET socks == [sockets EXCEPT ![s].readyState = "OPEN"]
           r == onopen(ws, socks, msgQueue, wire)
       IN  /\ sockets' = socks
           /\ msgQueue' = r.msgQueue
           /\ wire' = r.wire
    /\ event' = Ev("open", s, "", "", <<>>, <<>>, FALSE)
    /\ UNCHANGED << userAgent, url, ws, callback, timers, loadListener, reachable, calls >>

\* The peer starts the closing handshake on s: readyState CLOSING, no handler.
ClosingStarts(s) ==
    /\ sockets[s].readyState = "OPEN"
    /\ sockets' = [sockets EXCEPT ![s].readyState = "CLOSING"]
    /\ event' = Ev("closing", s, "", "", <<>>, <<>>, FALSE)
    /\ UNCHANGED << userAgent, url, ws, msgQueue, callback, timers, loadListener, reachable,
                    wire, calls >>

\* The connection of s is closed cleanly: readyState CLOSED, onclose runs.
SocketCloses(s) ==
    /\ sockets[s].readyState \in { "OPEN", "CLOSING" }
    /\ sockets' = [sockets EXCEPT ![s].readyState = "CLOSED"]
    /\ LET r == onclose(ws, timers)
       IN  ws' = r.ws /\ timers' = r.timers
    /\ event' = EvClose(s, "", <<>>, sockets[s].readyState)
    /\ UNCHANGED << userAgent, url, msgQueue, callback, loadListener, reachable, wire, calls >>

\* The connection of s fails (while opening: the endpoint is unreachable):
\* readyState CLOSED, then onerror and onclose run in the same task.
SocketFails(s) ==
    /\ \/ sockets[s].readyState = "CONNECTING" /\ ~reachable
       \/ sockets[s].readyState \in { "OPEN", "CLOSING" }
    /\ sockets' = [sockets EXCEPT ![s].readyState = "CLOSED"]
    /\ LET r == onclose(ws, timers)
       IN  ws' = r.ws /\ timers' = r.timers
    /\ event' = EvClose(s, "error", << "WebSocket error:" >>, sockets[s].readyState)
    /\ UNCHANGED << userAgent, url, msgQueue, callback, loadListener, reachable, wire, calls >>

\* onmessage as it would be if a throwing callback made it give the
\* connection up: the handle is dropped and a reconnect is scheduled.
MessageArrivesGivesUp(s, frame, world) ==
    /\ sockets[s].readyState = "OPEN"
    /\ LET r == onmessage(callback, frame)
           gaveUp == "Error in message callback:" \in { r.logged[i] : i \in 1..Len(r.logged) }
       IN  /\ event' = EvMessage(s, frame, r, world)
           /\ ws' = IF gaveUp THEN 0 ELSE ws
           /\ timers' = IF gaveUp THEN Append(timers, ReconnectDelay) ELSE timers
    /\ UNCHANGED << userAgent, url, sockets, msgQueue, callback, loadListener,
                    reachable, wire, calls >>

\* A frame arrives on s (message events fire only while OPEN): onmessage runs.
MessageArrives(s, frame, world) ==
    /\ sockets[s].readyState = "OPEN"
    /\ event' = EvMessage(s, frame, onmessage(callback, frame), world)
    /\ UNCHANGED << userAgent, url, ws, sockets, msgQueue, callback, timers, loadListener,
                    reachable, wire, calls >>

\* A caller calls send(v).
SendCall(v) ==
    /\ Len(calls) < MaxSends
    /\ LET m == [id |-> Len(calls) + 1, msg |-> v]
           r == send(ws, sockets, [msgQueue |-> msgQueue, wire |-> wire], m)
       IN  /\ msgQueue' = r.msgQueue
           /\ wire' = r.wire
    /\ calls' = Append(calls, [msg |-> v, open |-> ConnectionOpen])
    /\ event' = Ev("send", ws, "", "", <<>>, <<>>, FALSE)
    /\ UNCHANGED << userAgent, url, ws, sockets, callback, timers, loadListener, reachable >>

\* A caller calls registerCallback(cb).
RegisterCall(cb) ==
    /\ Len(callback) < MaxListeners
    /\ callback' = registerCallback(callback, cb)
    /\ event' = Ev("register", 0, cb, "", <<>>, <<>>, FALSE)
    /\ UNCHANGED << userAgent, url, ws, sockets, msgQueue, timers, loadListener, reachable,
                    wire, calls >>

\* The endpoint starts or stops accepting connections.
EndpointUp ==
    /\ ~reachable
    /\ reachable' = TRUE
    /\ event' = Ev("endpoint", 0, "up", "", <<>>, <<>>, FALSE)
    /\ UNCHANGED << userAgent, url, ws, sockets, msgQueue, callback, timers, loadListener,
                    wire, calls >>

EndpointDown ==
    /\ reachable
    /\ reachable' = FALSE
    /\ event' = Ev("endpoint", 0, "down", "", <<>>, <<>>, FALSE)
    /\ UNCHANGED << userAgent, url, ws, sockets, msgQueue, callback, timers, loadListener,
                    wire, calls >>

Next ==
    \/ TimerConnect
    \/ TimerNoToken
    \/ LoadConnect
    \/ LoadNoToken
    \/ \E s \in SocketIds : SocketOpens(s)
    \/ \E s \in SocketIds : ClosingStarts(s)
    \/ \E s \in SocketIds : SocketCloses(s)
    \/ \E s \in SocketIds : SocketFails(s)
    \/ \E s \in SocketIds, frame \in Frames : MessageArrives(s, frame, NominalWorld)
    \/ \E v \in Messages : SendCall(v)
    \/ \E cb \in Listeners \cup { NotAFunction } : RegisterCall(cb)
    \/ EndpointUp
    \/ EndpointDown

Spec == Init /\ [][Next]_vars

(***************************************************************************)
(* The same program where every prompt returns a token and the event loop   *)
(* delivers every timer, load and open event that stays due.  The endpoint  *)
(* may still go down and come back at any time.                             *)
(***************************************************************************)
LiveNext ==
    \/ TimerConnect
    \/ LoadConnect
    \/ \E s \in SocketIds : SocketOpens(s)
    \/ \E s \in SocketIds : ClosingStarts(s)
    \/ \E s \in SocketIds : SocketCloses(s)
    \/ \E s \in SocketIds : SocketFails(s)
    \/ \E s \in SocketIds, frame \in Frames : MessageArrives(s, frame, NominalWorld)
    \/ \E v \in Messages : SendCall(v)
    \/ \E cb \in Listeners \cup { NotAFunction } : RegisterCall(cb)
    \/ EndpointUp
    \/ EndpointDown

LiveSpec ==
    /\ Init
    /\ [][LiveNext]_vars
    /\ WF_vars(TimerConnect)
    /\ WF_vars(LoadConnect)
    /\ WF_vars(\E s \in SocketIds : SocketOpens(s))

(***************************************************************************)
(* The client as WebviewBrigeContribution.init sets it up and uses it: the  *)
(* router is its one listener and nothing calls send.  Every frame of       *)
(* RouterFrames may arrive, in every world.                                 *)
(***************************************************************************)
RouterInit ==
    /\ ws = 0
    /\ sockets = [s \in SocketIds |-> NoSocket]
    /\ msgQueue = <<>>
    /\ callback = registerCallback(<<>>, "router")
    /\ \E complete \in BOOLEAN :
          /\ timers = IF complete THEN << InitialDelay >> ELSE <<>>
          /\ loadListener = ~complete
    /\ reachable \in BOOLEAN
    /\ wire = <<>>
    /\ calls = <<>>
    /\ event = Ev("new", 0, "", "", <<>>, <<>>, FALSE)
    /\ userAgent = HostUserAgent
    /\ url = Url(userAgent)

RouterNext ==
    \/ TimerConnect
    \/ TimerNoToken
    \/ LoadConnect
    \/ LoadNoToken
    \/ \E s \in SocketIds : SocketOpens(s)
    \/ \E s \in SocketIds : ClosingStarts(s)
    \/ \E s \in SocketIds : SocketCloses(s)
    \/ \E s \in SocketIds : SocketFails(s)
    \/ \E s \in SocketIds, frame \in RouterFrames, world \in Worlds :
          MessageArrives(s, frame, world)
    \/ EndpointUp
    \/ EndpointDown

RouterSpec == RouterInit /\ [][RouterNext]_vars

(***************************************************************************)
(* The evaluation of the module's constants, for any user agent: nothing    *)
(* else exists yet.                                                         *)
(***************************************************************************)
PortInit ==
    /\ userAgent \in UserAgents
    /\ url = ""
    /\ ws = 0
    /\ sockets = [s \in SocketIds |-> NoSocket]
    /\ msgQueue = <<>>
    /\ callback = <<>>
    /\ timers = <<>>
    /\ loadListener = FALSE
    /\ reachable = FALSE
    /\ wire = <<>>
    /\ calls = <<>>
    /\ event = Ev("none", 0, "", "", <<>>, <<>>, FALSE)

\* Lines 18-19 run.
ModuleLoads ==
    /\ url = ""
    /\ url' = Url(userAgent)
    /\ event' = Ev("module", 0, "", "", <<>>, <<>>, FALSE)
    /\ UNCHANGED << ws, sockets, msgQueue, callback, timers, loadListener,
                    reachable, wire, calls, userAgent >>

PortSpec == PortInit /\ [][ModuleLoads]_vars

(***************************************************************************)
(* Properties.                                                              *)
(***************************************************************************)
Count(seq, x) == Cardinality({ i \in 1..Len(seq) : seq[i] = x })
WireIds == [i \in 1..Len(wire) |-> wire[i].id]
QueueIds == [i \in 1..Len(msgQueue) |-> msgQueue[i].id]
CallIds == [i \in 1..Len(calls) |-> i]

\* The send calls made while not open whose message is not transmitted yet,
\* in call order.
PendingIds ==
    LET Waiting(i) == ~calls[i].open /\ Count(WireIds, i) = 0
    IN  SelectSeq(CallIds, Waiting)

\* The frame send call i puts on socket s.
FrameOf(s, i) == [sock |-> s, id |-> i, frame |-> JSONstringify(calls[i].msg)]

\* C1: when a connection opens, the messages of the send calls made while
\* not open (and not transmitted before) are handed to that socket, each
\* once, in call order, and the outbound queue is empty afterwards.
C1_ReplayOnOpen ==
    [][ event'.op = "open" =>
          /\ wire' = wire \o [k \in 1..Len(PendingIds) |->
                                 FrameOf(event'.sock, PendingIds[k])]
          /\ msgQueue' = <<>> ]_vars

\* Two messages queued while disconnected went out as {"a":1} then {"b":2}.
C1_Witness ==
    /\ event.op = "open"
    /\ Len(calls) = 2 /\ ~calls[1].open /\ ~calls[2].open
    /\ Len(wire) = 2
    /\ wire[1].frame = "{\"a\":1}" /\ wire[2].frame = "{\"b\":2}"
    /\ msgQueue = <<>>

\* C2: frames reach the transport in the order of their send calls, and a
\* frame sent on an open connection is preceded on the wire by every message
\* queued before it.
C2_TransmitOrder ==
    /\ \A a, b \in 1..Len(wire) : a < b => wire[a].id < wire[b].id
    /\ \A b \in 1..Len(wire) :
          calls[wire[b].id].open =>
             \A i \in 1..(wire[b].id - 1) :
                ~calls[i].open => \E a \in 1..(b - 1) : wire[a].id = i

\* A queued message was replayed, then another was sent on the open socket.
C2_Witness ==
    /\ Len(calls) = 2 /\ ~calls[1].open /\ calls[2].open
    /\ WireIds = << 1, 2 >>
    /\ wire[1].sock = wire[2].sock

\* C3: every message passed to send is in the outbound queue once or was
\* handed to a socket once, never both, never neither, and it is the message
\* of that call.
C3_ExactlyOnePlace ==
    /\ \A i \in 1..Len(calls) : Count(QueueIds, i) + Count(WireIds, i) = 1
    /\ \A k \in 1..Len(msgQueue) :
          /\ msgQueue[k].id \in 1..Len(calls)
          /\ msgQueue[k].msg = calls[msgQueue[k].id].msg
    /\ \A k \in 1..Len(wire) :
          /\ wire[k].id \in 1..Len(calls)
          /\ wire[k].frame = JSONstringify(calls[wire[k].id].msg)

\* After a connection, a close and a failed token prompt, one message is on
\* the wire and a later one waits in the queue.
C3_Witness ==
    /\ event.op = "connect" /\ event.arg = NoToken
    /\ Len(wire) >= 1 /\ Len(msgQueue) >= 1
    /\ \E s \in SocketIds : sockets[s].readyState = "CLOSED"

\* C4: a send call made while OPEN appends the message's JSON text to what
\* the socket was handed and leaves the outbound queue as it was.
C4_SendWhileOpen ==
    [][ event'.op = "send" /\ ConnectionOpen =>
          /\ wire' = Append(wire, [sock |-> ws, id |-> Len(calls) + 1,
                                   frame |-> JSONstringify(calls'[Len(calls')].msg)])
          /\ msgQueue' = msgQueue ]_vars

\* A send on an open socket put {"b":2} on the wire while an earlier message
\* was already there.
C4_Witness ==
    /\ event.op = "send"
    /\ calls # <<>> /\ calls[Len(calls)].open
    /\ Len(wire) = 2 /\ wire[2].id = Len(calls) /\ wire[2].frame = "{\"b\":2}"
    /\ msgQueue = <<>>

\* C5: a send call made when not OPEN appends that message to the tail of
\* the queue, transmits nothing, raises and logs nothing, and leaves the
\* handle, the sockets, the listeners and the pending timers alone.
C5_SendWhileNotOpen ==
    [][ event'.op = "send" /\ ~ConnectionOpen =>
          /\ msgQueue' = Append(msgQueue, [id |-> Len(calls) + 1,
                                           msg |-> calls'[Len(calls')].msg])
          /\ wire' = wire
          /\ ~event'.escaped /\ event'.logged = <<>>
          /\ UNCHANGED << ws, sockets, callback, timers, loadListener >> ]_vars

\* A send while the socket is closing joined an earlier queued message.
C5_Witness ==
    /\ event.op = "send"
    /\ ws # 0 /\ sockets[ws].readyState = "CLOSING"
    /\ ~calls[Len(calls)].open
    /\ Len(msgQueue) = 2 /\ msgQueue[2].id = Len(calls)

\* C6: a close event (clean or after an error) drops the handle and
\* schedules exactly one reconnect, 1000 ms later.
C6_CloseSchedulesOne ==
    [][ event'.op = "close" =>
          /\ ws' = 0
          /\ timers' = Append(timers, ReconnectDelay) ]_vars

\* An open connection was closed: no handle, one timer pending.
C6_Witness ==
    /\ event.op = "close"
    /\ ws = 0 /\ timers = << ReconnectDelay >>
    /\ wire # <<>>

\* No handle, no pending timer or load listener, no live socket: nothing is
\* left that could call connect.
Idle ==
    /\ ws = 0
    /\ timers = <<>>
    /\ ~loadListener
    /\ \A s \in SocketIds : sockets[s].readyState \in { "FREE", "CLOSED" }

\* C7: when every prompt returns a token, due events are delivered and the
\* endpoint is reachable from some time on, every close event (of an open
\* connection or of a failed attempt, however many in a row) is followed by
\* the client being OPEN again.
C7_ReconnectsEventually ==
    (<>[]reachable) => ((event.op = "close") ~> ConnectionOpen)

\* A connection attempt failed while the endpoint was down, after an earlier
\* connection had carried a message; the reconnect is pending.
C7_Witness ==
    /\ event.op = "close" /\ event.arg = "error"
    /\ ~reachable
    /\ ws = 0 /\ timers = << ReconnectDelay >>
    /\ wire # <<>> /\ msgQueue # <<>>

\* C8: a connect whose prompt returns null creates no socket, schedules
\* nothing and leaves the handle, the queue and the listeners alone; the
\* client is then idle, and an idle client stays idle: no socket is created,
\* nothing is transmitted, a send only joins the queue.
C8_TokenFailureIdles ==
    [][ /\ (event'.op = "connect" /\ event'.arg = NoToken) =>
             /\ UNCHANGED << ws, sockets, msgQueue, callback, wire >>
             /\ Len(timers') <= Len(timers)
             /\ event'.logged = << "Failed to get message token." >>
             /\ Idle'
        /\ Idle =>
             /\ Idle'
             /\ UNCHANGED << sockets, wire >>
             /\ event'.op \in { "send", "register", "endpoint" }
             /\ event'.op = "send" => Len(msgQueue') = Len(msgQueue) + 1 ]_vars

\* A reconnect attempt ended at the prompt; a message sent afterwards waits
\* in the queue behind nothing that could send it.
C8_Witness ==
    /\ Idle
    /\ event.op = "send"
    /\ \E s \in SocketIds : sockets[s].readyState = "CLOSED"
    /\ Len(msgQueue) = 1 /\ Len(wire) = 1

\* C9: for a frame that parses, the callbacks registered at that time are
\* each called once with the parsed message, in registration order, whether
\* or not earlier ones throw; each throw is logged and none leaves the
\* handler.
C9_DispatchAll ==
    (event.op = "message" /\ JSONparse(event.frame).type # "SyntaxError") =>
        /\ event.invoked = [i \in 1..Len(callback) |->
                               << callback[i], JSONparse(event.frame) >>]
        /\ ~event.escaped
        /\ Len(event.logged) =
              Cardinality({ i \in 1..Len(callback) :
                              Throws(callback[i], JSONparse(event.frame)) })

\* The first listener threw on an updateTheme frame and the router, second,
\* was still called.
C9_Witness ==
    /\ event.op = "message"
    /\ event.frame = "{\"command\":\"updateTheme\",\"data\":\"theme-2\"}"
    /\ callback = << "thrower", "router" >>
    /\ Len(event.invoked) = 2
    /\ event.invoked[2][1] = "router"
    /\ event.logged = << "Error in message callback:" >>

\* C10: for a frame that is no JSON text, no callback is called, nothing
\* leaves the handler, the failure is logged, the client was and stays OPEN
\* on that socket, and handle, sockets, queue, listeners and timers are as
\* before.
C10_MalformedFrame ==
    [][ (event'.op = "message" /\ event'.frame \in MalformedFrames) =>
          /\ event'.invoked = <<>>
          /\ ~event'.escaped
          /\ event'.logged = << "Failed to parse message:" >>
          /\ ConnectionOpen /\ ConnectionOpen' /\ ws' = event'.sock
          /\ UNCHANGED << ws, sockets, msgQueue, callback, timers,
                          loadListener, wire >> ]_vars

\* A malformed frame arrived with two listeners registered and none ran.
C10_Witness ==
    /\ event.op = "message"
    /\ event.frame = "not json"
    /\ Len(callback) = 2
    /\ event.invoked = <<>>
    /\ ConnectionOpen

\* C11: the listener list only grows at its tail, whatever happens to the
\* connection, and a frame that parses, on any connection, reaches every
\* listener registered before it arrived.
C11_ListenersSurvive ==
    [][ /\ Len(callback) <= Len(callback')
        /\ SubSeq(callback', 1, Len(callback)) = callback
        /\ (event'.op = "message" /\ event'.frame \notin MalformedFrames) =>
              \A i \in 1..Len(callback) :
                 /\ i <= Len(event'.invoked)
                 /\ event'.invoked[i][1] = callback[i] ]_vars

\* A frame arrived on a second connection (the first carried message 1, the
\* second replayed message 2) and both listeners were called.
C11_Witness ==
    /\ event.op = "message"
    /\ event.frame = "{\"command\":\"updateTheme\",\"data\":\"theme-2\"}"
    /\ Len(calls) = 2 /\ calls[1].open /\ ~calls[2].open
    /\ WireIds = << 1, 2 >>
    /\ callback = << "router", "thrower" >>
    /\ Len(event.invoked) = 2

\* The port the pattern port/(\d+) finds in ua: the digits after the leftmost
\* "port/" that has a digit after it; DefaultPort when there is none.
PatternPort(ua) ==
    LET Hit(i) == MatchesAt(ua, i) /\ DigitRun(ua, i + Len(PortPrefix)) # <<>>
    IN  IF \E i \in 1..Len(ua) : Hit(i)
        THEN LET i == CHOOSE k \in 1..Len(ua) : Hit(k) /\ \A l \in 1..(k - 1) : ~Hit(l)
             IN  DecimalValue(DigitRun(ua, i + Len(PortPrefix)))
        ELSE DefaultPort

\* C12: the endpoint's port is the number after "port/" in the user agent,
\* and 9974 when that number is absent or unparsable, also for "port/" with
\* no digit after it.
C12_PortOrDefault ==
    url # "" => url = "ws://127.0.0.1:" \o ToString(PatternPort(userAgent))

(***************************************************************************)
(* The router, under RouterSpec                                             *)
(***************************************************************************)
\* The value a delivered frame parsed to, its command and its data.
Delivered(e) == JSONparse(e.frame)
IsDelivery(e) == e.op = "message" /\ e.frame \notin MalformedFrames
CommandIs(e, name) ==
    LET c == Member(Delivered(e), "command") IN c.type = "string" /\ c.str = name
DataOf(e) == Member(Delivered(e), "data")
CountCalls(called, fn) == Cardinality({ i \in 1..Len(called) : called[i].fn = fn })

\* C13: for every delivered message whose command is none of openFile,
\* updateTheme, updateLocale (no command field and non-object JSON values
\* included), the router calls no service, and no error is raised or logged.
C13_UnknownIgnored ==
    ( /\ IsDelivery(event)
      /\ ~CommandIs(event, "openFile")
      /\ ~CommandIs(event, "updateTheme")
      /\ ~CommandIs(event, "updateLocale") ) =>
        /\ \A i \in 1..Len(event.did) : event.did[i] = NothingDone
        /\ event.logged = <<>>
        /\ ~event.escaped

\* The theme identifier the message asks for.
WantedTheme(e) ==
    LET data == DataOf(e)
    IN  IF data.type = "string" /\ data.str = "theme-2"
        THEN "Visual Studio Light" ELSE "Default Dark+"

\* C14: for an updateTheme message the router asks for the light theme
\* exactly when data is "theme-2" and for the default dark theme for every
\* other data; it makes one setColorTheme request when that theme exists and
\* none (naming the theme it looked for) when it does not.
C14_ThemeRequest ==
    (IsDelivery(event) /\ CommandIs(event, "updateTheme")) =>
        \A i \in 1..Len(event.did) :
            LET d == event.did[i]
                wanted == WantedTheme(event)
            IN  /\ ~d.threw
                /\ Len(d.called) >= 1
                /\ d.called[1].fn = "getColorThemes"
                /\ CountCalls(d.called, "setColorTheme") =
                      IF wanted \in d.called[1].result THEN 1 ELSE 0
                /\ \A j \in 1..Len(d.called) :
                      d.called[j].fn = "setColorTheme" => d.called[j].arg = wanted
                /\ wanted \notin d.called[1].result =>
                      d.logged = << "Failed to find theme " \o wanted >>

C14_Witness ==
    /\ event.op = "message"
    /\ event.frame = "{\"command\":\"updateTheme\",\"data\":\"theme-2\"}"
    /\ Len(event.did) = 1
    /\ Len(event.did[1].called) = 2
    /\ event.did[1].called[2] = Called("setColorTheme", "Visual Studio Light", { "ok" })

\* Whether the i-th callback run of delivery e met a failing service: no
\* workspace folder, no theme of the wanted id, a rejected configuration write.
ActionFailed(e, i) ==
    LET d == e.did[i]
    IN  /\ Len(d.called) >= 1
        /\ \/ CommandIs(e, "openFile") /\ d.called[1].result = {}
           \/ CommandIs(e, "updateTheme") /\ WantedTheme(e) \notin d.called[1].result
           \/ CommandIs(e, "updateLocale") /\ d.called[1].result = { "rejects" }

\* C19: every failure of a router action (openFile with no workspace folder,
\* updateTheme with an unknown theme id, updateLocale whose write fails) is
\* logged where it fails and ends the processing of that message only: no
\* rejection is left unhandled, nothing is requeued or retried, and the
\* connection is as it was.
C19_FailuresLogged ==
    [][ IsDelivery(event') =>
          \A i \in 1..Len(event'.did) :
             ActionFailed(event', i) =>
                /\ event'.did[i].logged # <<>>
                /\ ~event'.did[i].rejected
                /\ ~event'.did[i].threw
                /\ UNCHANGED << ws, sockets, msgQueue, callback, timers, wire >> ]_vars

(***************************************************************************)
(* The life of a connection, under Spec                                     *)
(***************************************************************************)
Live(s) == sockets[s].readyState \in { "CONNECTING", "OPEN", "CLOSING" }
LiveSockets == { s \in SocketIds : Live(s) }

\* At most one socket is live, and it is the one the handle refers to.
OneLive ==
    /\ Cardinality(LiveSockets) <= 1
    /\ LiveSockets = IF ws = 0 THEN {} ELSE { ws }

\* Every change of a socket's readyState is one of edges.  A slot that is
\* FREE or CLOSED holds no connection: CONNECTING after it is a new one.
MovesAlong(edges) ==
    \A s \in SocketIds :
        sockets'[s].readyState # sockets[s].readyState =>
            << sockets[s].readyState, sockets'[s].readyState >> \in edges

\* absent -> connecting -> open -> (closing ->) closed -> absent
ThroughOpen ==
    { << "FREE", "CONNECTING" >>, << "CLOSED", "CONNECTING" >>,
      << "CONNECTING", "OPEN" >>, << "OPEN", "CLOSING" >>,
      << "OPEN", "CLOSED" >>, << "CLOSING", "CLOSED" >> }

\* A connection is created only by connect, when no other is live, and
\* becomes the handle; a close event finds the handle on the socket it is for.
CreatedAndClosedInTurn ==
    /\ \A s \in SocketIds :
          (sockets'[s].readyState = "CONNECTING" /\ sockets[s].readyState # "CONNECTING") =>
              /\ LiveSockets = {}
              /\ ws = 0
              /\ event'.op = "connect"
              /\ ws' = s
    /\ event'.op = "close" => (ws = event'.sock /\ ws' = 0)

\* C15 as stated: at most one connection is live (connecting, open or
\* closing); each goes absent -> connecting -> open -> closed -> absent only;
\* none is created while another exists; no close event clears the handle of
\* another connection.
C15_OnlyThroughOpen ==
    /\ []OneLive
    /\ [][MovesAlong(ThroughOpen) /\ CreatedAndClosedInTurn]_vars

\* C15: at most one connection is live; each goes absent -> connecting ->
\* open -> (closing ->) closed -> absent, or, when the attempt fails,
\* absent -> connecting -> closed -> absent without ever being open; none is
\* created while another exists; no close event clears the handle of another
\* connection.
C15_Lifecycle ==
    /\ []OneLive
    /\ [][ /\ MovesAlong(ThroughOpen \cup { << "CONNECTING", "CLOSED" >> })
           /\ CreatedAndClosedInTurn ]_vars

C15_Witness ==
    /\ event.op = "close"
    /\ event.was = "CONNECTING"
    /\ sockets[event.sock].readyState = "CLOSED"
    /\ LiveSockets = {}
    /\ ws = 0

\* C16: every transport failure, a close event or an error event (also an
\* error while opening, before the connection was ever OPEN), leaves the
\* client closed: the handle is dropped, one connection attempt is scheduled,
\* and callers of send see nothing of it: what they sent stays queued or
\* sent as it was, and nothing is thrown.
C16_FailureRecovers ==
    [][ event'.op = "close" =>
          /\ ws' = 0
          /\ ~ConnectionOpen'
          /\ sockets'[event'.sock].readyState = "CLOSED"
          /\ timers' = Append(timers, ReconnectDelay)
          /\ ~event'.escaped
          /\ UNCHANGED << msgQueue, wire, calls >> ]_vars

C16_Witness ==
    /\ event.op = "close"
    /\ event.arg = "error"
    /\ event.was = "CONNECTING"
    /\ msgQueue # <<>>
    /\ ws = 0
    /\ timers = << ReconnectDelay >>

\* C17: the queue grows only by a send made while the connection is not
\* open; whenever the connection is OPEN (its open handler has run) the queue
\* is empty, so it stays empty until the connection leaves OPEN.
C17_QueueEmptyWhileOpen ==
    /\ [](ConnectionOpen => msgQueue = <<>>)
    /\ [][ Len(msgQueue') > Len(msgQueue) =>
             (~ConnectionOpen /\ event'.op = "send") ]_vars

C17_Witness ==
    /\ ConnectionOpen
    /\ event.op = "send"
    /\ Len(calls) = 2 /\ ~calls[1].open /\ calls[2].open
    /\ WireIds = << 1, 2 >>
    /\ msgQueue = <<>>

\* Whether some callback threw during delivery e.
SomeListenerThrew(e) == \E i \in 1..Len(e.did) : e.did[i].threw

\* C18: a listener that throws while handling a message changes neither the
\* queue nor the connection: the connection stays OPEN, no reconnect is
\* scheduled, and the queue, what was transmitted and the listener list are
\* as before.
C18_ThrowChangesNothing ==
    [][ (event'.op = "message" /\ SomeListenerThrew(event')) =>
          /\ ConnectionOpen /\ ConnectionOpen'
          /\ UNCHANGED << ws, sockets, msgQueue, callback, timers, wire >> ]_vars

C18_Witness ==
    /\ event.op = "message"
    /\ SomeListenerThrew(event)
    /\ event.frame = "null"
    /\ callback = << "router" >>
    /\ ConnectionOpen
    /\ timers = <<>>
    /\ wire # <<>>

\* C20: at most one timer is pending, and none while a handle or a live
\* socket exists or while the load listener is still waiting; a timer is
\* created only by a close event (one, of 1000 ms) and goes away only by
\* running connect once.
C20_OneTimer ==
    /\ [] /\ Len(timers) <= 1
          /\ timers # <<>> => (ws = 0 /\ LiveSockets = {} /\ ~loadListener)
    /\ [][ /\ Len(timers') > Len(timers) =>
                (event'.op = "close" /\ timers' = Append(timers, ReconnectDelay))
           /\ Len(timers') < Len(timers) =>
                (event'.op = "connect" /\ Len(timers') = Len(timers) - 1)
           /\ (event'.op = "connect" /\ ~loadListener) =>
                Len(timers') = Len(timers) - 1 ]_vars

C20_Witness ==
    /\ event.op = "connect"
    /\ event.arg \in Tokens
    /\ timers = <<>>
    /\ ws # 0 /\ sockets[ws].readyState = "CONNECTING"
    /\ wire # <<>>

====
